---- MODULE Spec2Model ----
(***************************************************************************)
(* Model of dashboard_app.py: the cached loader load_data and the page     *)
(* script main, which Streamlit runs from top to bottom once when the page *)
(* is opened and once more after every widget change.                      *)
(*                                                                         *)
(* A DataFrame is a record [isNone, error, columns, rows]: rows is the     *)
(* sequence of its rows in frame order and every row is a function from    *)
(* the column names to the cell values, so "c in df.columns" is            *)
(* c \in d.columns; error tells that st.error was called while loading.    *)
(* Scores are counted in tenths (5 stands for 0.5, 15 for 1.5), a mean is  *)
(* the exact fraction [num, den] of the summed tenths over the row count.  *)
(* Strings are ordered by their place in Lexicon, which lists every string *)
(* of the model in code point order, the order Python and pandas compare   *)
(* strings in.  Sorting keeps rows with equal keys in frame order, as      *)
(* the sorts pandas uses do on tables as short as the model's.             *)
(*                                                                         *)
(* Spec runs the script under every widget change, on files that show      *)
(* every way a load can end; SpecRender runs it on larger tables, where    *)
(* the aggregates are checked.                                             *)
(***************************************************************************)
EXTENDS Integers, Sequences, FiniteSets, TLC

VARIABLES
    file,           \* Sentiment_Analysis_Production.xlsx on disk
    cache,          \* st.cache_data's store for load_data: <<>> or <<result>>
    reads,          \* number of pd.read_excel calls made so far
    session,        \* "closed", or how the last script run ended
    page,           \* elements the last script run put on the page, in order
    widgets,        \* widget state kept between runs: label -> [options, value]
    df,             \* main's df
    latest_df,      \* main's latest_df
    top_pos,        \* main's top_pos
    top_neg,        \* main's top_neg
    sector_avg,     \* main's sector_avg
    sector_perf,    \* main's sector_perf (with its Count column)
    sel_sector,     \* main's sel_sector
    comps,          \* main's comps
    sel_comp,       \* main's sel_comp
    compare_comp,   \* main's compare_comp
    comp_data,      \* rows behind the main trend line
    comp2_data      \* rows behind the comparison trend line

vars == <<file, cache, reads, session, page, widgets, df, latest_df, top_pos,
          top_neg, sector_avg, sector_perf, sel_sector, comps, sel_comp,
          compare_comp, comp_data, comp2_data>>

(***************************************************************************)
(* Bounds of the model.                                                    *)
(***************************************************************************)
\* longest table of the general input family
MaxRows == 3
\* number of rows (one company each) of the wide input family
WideRows == 6
\* longest table of the schema and parse variants
MaxVariantRows == 2
\* number of companies of the selector input family
SelectCompanies == 3

(***************************************************************************)
(* Strings and their order.                                                *)
(***************************************************************************)
Lexicon == <<"Apr", "Auto", "Axis", "Bajaj", "Banking", "Cement", "Cipla",
             "Dabur", "Dec", "Eicher", "Energy", "FMCG", "Godrej", "Havells",
             "IT", "Infosys", "Metals", "Pharma", "Sept">>

StrRankOf == [s \in {Lexicon[i] : i \in 1..Len(Lexicon)} |->
                 CHOOSE i \in 1..Len(Lexicon) : Lexicon[i] = s]

StrRank(s) == StrRankOf[s]

StrLess(a, b) == StrRank(a) < StrRank(b)

CompanyNames == <<"Axis", "Bajaj", "Cipla", "Dabur", "Eicher", "Godrej",
                  "Havells", "Infosys">>

SectorNames == <<"Auto", "Banking", "Cement", "Energy", "FMCG", "IT",
                 "Metals", "Pharma">>

(***************************************************************************)
(* Sequence helpers standing for the pandas operations the script uses.    *)
(***************************************************************************)
Range(s) == {s[i] : i \in 1..Len(s)}

\* whether cell x of column col sorts before cell y: names by code point,
\* Date_Str, a string, by its month name and then its year, numbers by value
CellLess(col, x, y) ==
    IF col \in {"Company", "Sector"} THEN StrLess(x, y)
    ELSE IF col = "Date_Str"
         THEN StrLess(x[1], y[1]) \/ (x[1] = y[1] /\ x[2] < y[2])
         ELSE x < y

\* whether row a sorts before row b under sort_values(by, ascending): the
\* first column of by they differ in decides
RowLess(by, ascending, a, b) ==
    \E k \in 1..Len(by) :
        /\ \A m \in 1..(k - 1) : a[by[m]] = b[by[m]]
        /\ IF ascending
           THEN CellLess(by[k], a[by[k]], b[by[k]])
           ELSE CellLess(by[k], b[by[k]], a[by[k]])

\* DataFrame.sort_values(by, ascending=...): the rows s in sorted order, rows
\* with equal keys in the order they had
sort_values(s, by, ascending) ==
    LET n == Len(s)
        pos(i) == 1 + Cardinality({j \in 1..n :
                        \/ RowLess(by, ascending, s[j], s[i])
                        \/ (~RowLess(by, ascending, s[i], s[j]) /\ j < i)})
    IN  [k \in 1..n |-> s[CHOOSE i \in 1..n : pos(i) = k]]

\* the elements of s at the indices in idx, in the order of s: what a boolean
\* mask df[mask] and a list comprehension keep
AtIndices(s, idx) ==
    LET nth(k) == CHOOSE i \in idx : Cardinality({j \in idx : j <= i}) = k
    IN  [k \in 1..Cardinality(idx) |-> s[nth(k)]]

\* .head(n)
HeadN(s, n) == IF Len(s) <= n THEN s ELSE SubSeq(s, 1, n)

\* sorted(series.unique()): the distinct strings of a set in ascending order
SortedStrings(S) ==
    LET rank(x) == 1 + Cardinality({y \in S : StrLess(y, x)})
    IN  [k \in 1..Cardinality(S) |-> CHOOSE x \in S : rank(x) = k]

RECURSIVE SumScores(_)
SumScores(s) == IF s = <<>> THEN 0 ELSE s[1].Score + SumScores(Tail(s))

(***************************************************************************)
(* The spreadsheet.  A file is [exists, columns, rows]; its rows carry     *)
(* exactly the columns of its schema.                                      *)
(***************************************************************************)
KeyColumns == {"Company", "Sector", "Month", "Year"}

ScoreColumns == {"Overall_Score", "Overall_Sentiment"}

Schemas == {KeyColumns \cup X : X \in SUBSET ScoreColumns}

MissingFile == [exists |-> FALSE, columns |-> {}, rows |-> <<>>]

Restrict(r, cols) == [c \in cols |-> r[c]]

FileOf(cols, t) ==
    [exists |-> TRUE, columns |-> cols,
     rows |-> [i \in 1..Len(t) |-> Restrict(t[i], cols)]]

\* the two columns of a row hold different numbers, so that the column a
\* Score was copied from shows; 15 (1.5) lies outside the documented range
ScorePairs == {<<-5, 5>>, <<15, -10>>}

\* "Apr 2024" sorts before "Dec 2023" as a string and after it as a date
Periods == {<<"Dec", 2023>>, <<"Apr", 2024>>}

\* "Sept" is no %b month abbreviation
BadPeriods == {<<"Sept", 2024>>}

RowsOver(companies, sectors, periods, pairs) ==
    {[Company |-> c, Sector |-> s, Month |-> p[1], Year |-> p[2],
      Overall_Score |-> v[1], Overall_Sentiment |-> v[2]] :
        c \in companies, s \in sectors, p \in periods, v \in pairs}

TablesOver(rows, maxLen) == UNION {[1..n -> rows] : n \in 1..maxLen}

\* tables of the documented schema: up to MaxRows rows in any order, two
\* companies, two sectors, two periods
DataRows == RowsOver({"Axis", "Bajaj"}, {"Auto", "Banking"}, Periods, ScorePairs)

DataFiles ==
    {FileOf(KeyColumns \cup {"Overall_Score"}, t) : t \in TablesOver(DataRows, MaxRows)}

\* short tables under each of the four schemas, unparseable months included
VariantRows ==
    RowsOver({"Axis", "Bajaj"}, {"Auto", "Banking"}, Periods \cup BadPeriods, ScorePairs)

VariantFiles ==
    {FileOf(cols, t) : cols \in Schemas, t \in TablesOver(VariantRows, MaxVariantRows)}

\* tables with more companies than a top list has places, all in one period:
\* row i is company i, and g companies share a sector (with g = 1 there are
\* more sectors than places too); the sectors come in descending order
WideScores == {-5, 0, 5}

WideFolds == {1, 4}

WideTable(v, g) ==
    [i \in 1..WideRows |->
        [Company |-> CompanyNames[i],
         Sector |-> SectorNames[1 + ((WideRows - i) \div g)],
         Month |-> "Apr", Year |-> 2024,
         Overall_Score |-> v[i], Overall_Sentiment |-> 0 - v[i]]]

WideFiles ==
    {FileOf(KeyColumns \cup {"Overall_Score"}, WideTable(v, g)) :
        v \in [1..WideRows -> WideScores], g \in WideFolds}

\* tables for the selectors: SelectCompanies companies in descending order of
\* their names, one row each, spread over two sectors in every way
SelectorTable(sec) ==
    [i \in 1..SelectCompanies |->
        [Company |-> CompanyNames[SelectCompanies + 1 - i], Sector |-> sec[i],
         Month |-> "Apr", Year |-> 2024,
         Overall_Score |-> 5, Overall_Sentiment |-> -5]]

SelectorFiles ==
    {FileOf(KeyColumns \cup {"Overall_Score"}, SelectorTable(sec)) :
        sec \in [1..SelectCompanies -> {"Auto", "Banking"}]}

\* the inputs of Spec: every way a load can end, and the selector tables
Files == {MissingFile} \cup VariantFiles \cup SelectorFiles

\* the inputs of SpecRender: tables that load and render
RenderFiles == DataFiles \cup WideFiles

(***************************************************************************)
(* load_data                                                               *)
(***************************************************************************)
MonthAbbr == <<"Jan", "Feb", "Mar", "Apr", "May", "Jun",
               "Jul", "Aug", "Sep", "Oct", "Nov", "Dec">>

IsMonthAbbr(m) == \E i \in 1..Len(MonthAbbr) : MonthAbbr[i] = m

MonthNum(m) == CHOOSE i \in 1..Len(MonthAbbr) : MonthAbbr[i] = m

\* df['Month'] + ' ' + df['Year'].astype(str), kept as the pair of its parts
Date_Str(r) == <<r.Month, r.Year>>

\* pd.to_datetime(..., format='%b %Y'): the first day of that month, counted
\* in months
to_datetime(ds) == ds[2] * 12 + (MonthNum(ds[1]) - 1)

\* df[name] = values: adds the column or overwrites it
AddColumn(d, name, values) ==
    [d EXCEPT !.columns = @ \cup {name},
              !.rows = [i \in 1..Len(d.rows) |-> (name :> values[i]) @@ d.rows[i]]]

\* a column of d, as the sequence of its cells
Column(d, name) == [i \in 1..Len(d.rows) |-> d.rows[i][name]]

None == [isNone |-> TRUE, error |-> FALSE, columns |-> {}, rows |-> <<>>]

\* the except branch: st.error(...) and return None
NoneAfterError == [None EXCEPT !.error = TRUE]

\* WithScore taking the score for a percentage
WithScoreScaled(d) ==
    IF "Overall_Score" \in d.columns
    THEN AddColumn(d, "Score", [i \in 1..Len(d.rows) |-> d.rows[i].Overall_Score * 100])
    ELSE IF "Overall_Sentiment" \in d.columns
         THEN AddColumn(d, "Score",
                        [i \in 1..Len(d.rows) |-> d.rows[i].Overall_Sentiment * 100])
         ELSE d

\* lines 72-73: the column Score is copied from
WithScore(d) ==
    IF "Overall_Score" \in d.columns
    THEN AddColumn(d, "Score", Column(d, "Overall_Score"))
    ELSE IF "Overall_Sentiment" \in d.columns
         THEN AddColumn(d, "Score", Column(d, "Overall_Sentiment"))
         ELSE d

\* what lines 67-70 raise on: a missing column or a month %b does not parse
Raises(f) ==
    \/ ~({"Month", "Year", "Company"} \subseteq f.columns)
    \/ \E i \in 1..Len(f.rows) : ~IsMonthAbbr(f.rows[i].Month)

\* SortedByCompanyDate sorting on Date_Str, the string, for Date
SortedByCompanyDateStr(d) ==
    [d EXCEPT !.rows = sort_values(@, <<"Company", "Date_Str">>, TRUE)]

\* line 70: df.sort_values(['Company', 'Date'])
SortedByCompanyDate(d) == [d EXCEPT !.rows = sort_values(@, <<"Company", "Date">>, TRUE)]

\* the body of load_data, run on the file as it is on disk
load_data_body(f) ==
    IF ~f.exists THEN None
    ELSE IF Raises(f) THEN NoneAfterError
    ELSE LET d0 == [isNone |-> FALSE, error |-> FALSE,
                    columns |-> f.columns, rows |-> f.rows]
             d1 == AddColumn(d0, "Date_Str",
                             [i \in 1..Len(d0.rows) |-> Date_Str(d0.rows[i])])
             d2 == AddColumn(d1, "Date",
                             [i \in 1..Len(d1.rows) |-> to_datetime(d1.rows[i].Date_Str)])
         IN  WithScore(SortedByCompanyDate(d2))

\* pd.read_excel runs only past the exists() test
ReadsOf(f) == IF f.exists THEN 1 ELSE 0

\* @st.cache_data: the first call's return value is stored and returned by
\* every later call
CacheHit(c) == c # <<>>

\* CacheStore of a loader left undecorated: nothing is kept
CacheStoreNothing(c, result) == c

CacheStore(c, result) == IF CacheHit(c) THEN c ELSE <<result>>

load_data(c, f) == IF CacheHit(c) THEN c[1] ELSE load_data_body(f)

(***************************************************************************)
(* main: the aggregates                                                    *)
(***************************************************************************)
\* the ends of the documented Score range, in tenths: min_value and max_value
\* of the Sentiment Score column
MinScore == -10

MaxScore == 10

\* places in a top list: the 5 of .head(5)
TopN == 5

\* groupby('Company').tail(1): of every company the last row, in frame order
TailPerCompany(s) ==
    AtIndices(s, {i \in 1..Len(s) :
                    \A j \in 1..Len(s) : s[j].Company = s[i].Company => j <= i})

\* groupby('Company').head(1): of every company the first row
HeadPerCompany(s) ==
    AtIndices(s, {i \in 1..Len(s) :
                    \A j \in 1..Len(s) : s[j].Company = s[i].Company => i <= j})

\* LatestOf with head(1) written for tail(1)
LatestOfHead(d) == HeadPerCompany(sort_values(d.rows, <<"Date">>, TRUE))

\* line 91: df.sort_values('Date').groupby('Company').tail(1)
LatestOf(d) == TailPerCompany(sort_values(d.rows, <<"Date">>, TRUE))

\* TopPositive without the sort
TopPositiveUnsorted(latest) == HeadN(latest, TopN)

\* line 99
TopPositive(latest) == HeadN(sort_values(latest, <<"Score">>, FALSE), TopN)

\* line 114
TopNegative(latest) == HeadN(sort_values(latest, <<"Score">>, TRUE), TopN)

\* the group keys of groupby('Sector'), which sorts them
SectorKeys(latest) == SortedStrings({r.Sector : r \in Range(latest)})

\* the rows of one group of groupby('Sector')
SectorRows(latest, s) ==
    AtIndices(latest, {i \in 1..Len(latest) : latest[i].Sector = s})

\* MeanScore with sum() written for mean()
MeanScoreSum(rows) == [num |-> SumScores(rows), den |-> 1]

\* Series.mean(): the sum over the count
MeanScore(rows) == [num |-> SumScores(rows), den |-> Len(rows)]

\* groupby('Sector')['Score'].mean(): one row per sector, in key order
SectorMeans(latest) ==
    LET keys == SectorKeys(latest)
    IN  [i \in 1..Len(keys) |->
            [Sector |-> keys[i], Score |-> MeanScore(SectorRows(latest, keys[i]))]]

\* a.num / a.den > b.num / b.den, the denominators being positive
MeanGreater(a, b) == a.Score.num * b.Score.den > b.Score.num * a.Score.den

\* Series.sort_values(ascending=False) of a series of means, equal means in
\* the order they had
SortMeansDescending(s) ==
    LET n == Len(s)
        pos(i) == 1 + Cardinality({j \in 1..n :
                        \/ MeanGreater(s[j], s[i])
                        \/ (~MeanGreater(s[i], s[j]) /\ j < i)})
    IN  [k \in 1..n |-> s[CHOOSE i \in 1..n : pos(i) = k]]

\* line 129
SectorAverage(latest) == HeadN(SortMeansDescending(SectorMeans(latest)), TopN)

\* SectorCounts with groupby(..., sort=False): the groups in the order in
\* which the snapshot meets their keys
SectorCountsUnsorted(latest) ==
    LET firsts == AtIndices(latest, {i \in 1..Len(latest) :
                        \A j \in 1..Len(latest) :
                            latest[j].Sector = latest[i].Sector => i <= j})
    IN  [i \in 1..Len(firsts) |-> Len(SectorRows(latest, firsts[i].Sector))]

\* groupby('Sector')['Company'].count().values: the counts alone, in key order
SectorCounts(latest) ==
    LET keys == SectorKeys(latest)
    IN  [i \in 1..Len(keys) |-> Len(SectorRows(latest, keys[i]))]

\* lines 148-149: the means, and the counts assigned to them by position
SectorPerf(latest) ==
    LET means == SectorMeans(latest)
        counts == SectorCounts(latest)
    IN  [i \in 1..Len(means) |->
            [Sector |-> means[i].Sector, Score |-> means[i].Score, Count |-> counts[i]]]

(***************************************************************************)
(* main: the selectors                                                     *)
(***************************************************************************)
\* st.selectbox(label, options): a widget is the same widget as in the run
\* before when its label and options are the same, and then returns the value
\* the user left it at; otherwise it returns its first option
Selectbox(ws, label, options) ==
    IF label \in DOMAIN ws /\ ws[label].options = options
    THEN ws[label].value
    ELSE options[1]

\* line 171
SectorOptions(d) ==
    <<"All Sectors">> \o SortedStrings({r.Sector : r \in Range(d.rows)})

\* lines 174-177
CompanyOptions(d, sector) ==
    IF sector # "All Sectors"
    THEN SortedStrings({r.Company : r \in {x \in Range(d.rows) : x.Sector = sector}})
    ELSE SortedStrings({r.Company : r \in Range(d.rows)})

\* CompareOptions offering the selected company too
CompareOptionsAll(cs, sel) == <<"None">> \o cs

\* line 180
CompareOptions(cs, sel) == <<"None">> \o AtIndices(cs, {i \in 1..Len(cs) : cs[i] # sel})

\* df[df['Company'] == c]
CompanyRows(d, c) == AtIndices(d.rows, {i \in 1..Len(d.rows) : d.rows[i].Company = c})

(***************************************************************************)
(* main: one run of the script                                             *)
(***************************************************************************)
\* Stops without the st.stop()
StopsNever(d) == FALSE

\* lines 81-83: st.error, then st.stop() ends the run
Stops(d) == d.isNone

ErrorElements(d) ==
    (IF d.error THEN <<"load_error">> ELSE <<>>) \o <<"not_found_error">>

FullPage == <<"header", "top_positive", "top_negative", "sector_average",
              "treemap", "histogram", "selectors", "current_score",
              "line_chart", "data_table">>

NoOutputs ==
    /\ top_pos' = <<>>
    /\ top_neg' = <<>>
    /\ sector_avg' = <<>>
    /\ sector_perf' = <<>>
    /\ sel_sector' = ""
    /\ comps' = <<>>
    /\ sel_comp' = ""
    /\ compare_comp' = ""
    /\ comp_data' = <<>>
    /\ comp2_data' = <<>>
    /\ widgets' = <<>>

\* main(), run with the widget state ws
Run(ws) ==
    /\ df' = load_data(cache, file)
    /\ cache' = CacheStore(cache, df')
    /\ reads' = IF CacheHit(cache) THEN reads ELSE reads + ReadsOf(file)
    /\ file' = file
    /\ IF Stops(df')
       THEN /\ session' = "stopped"
            /\ page' = ErrorElements(df')
            /\ latest_df' = <<>>
            /\ NoOutputs
       ELSE IF "Score" \notin df'.columns
       THEN \* line 99 raises KeyError: 'Score'
            /\ session' = "error"
            /\ page' = (IF df'.error THEN <<"load_error">> ELSE <<>>)
                          \o <<"header", "exception">>
            /\ latest_df' = LatestOf(df')
            /\ NoOutputs
       ELSE /\ session' = "done"
            /\ page' = FullPage
            /\ latest_df' = LatestOf(df')
            /\ top_pos' = TopPositive(latest_df')
            /\ top_neg' = TopNegative(latest_df')
            /\ sector_avg' = SectorAverage(latest_df')
            /\ sector_perf' = SectorPerf(latest_df')
            /\ sel_sector' = Selectbox(ws, "Industry", SectorOptions(df'))
            /\ comps' = CompanyOptions(df', sel_sector')
            /\ sel_comp' = Selectbox(ws, "Company Name", comps')
            /\ compare_comp' = Selectbox(ws, "Compare With (Optional)",
                                         CompareOptions(comps', sel_comp'))
            /\ comp_data' = CompanyRows(df', sel_comp')
            /\ comp2_data' = IF compare_comp' # "None"
                             THEN CompanyRows(df', compare_comp')
                             ELSE <<>>
            /\ widgets' =
                 ("Industry" :> [options |-> SectorOptions(df'), value |-> sel_sector'])
                 @@ ("Company Name" :> [options |-> comps', value |-> sel_comp'])
                 @@ ("Compare With (Optional)" :>
                        [options |-> CompareOptions(comps', sel_comp'),
                         value |-> compare_comp'])

\* the browser may set the widget label to v: it is on the page, v is one of
\* its options and not its value
Changeable(label, v) ==
    /\ session = "done"
    /\ v \in Range(widgets[label].options)
    /\ v # widgets[label].value

\* the widget state the browser sends with the change
Changed(label, v) == [widgets EXCEPT ![label].value = v]

(***************************************************************************)
(* The state machine                                                       *)
(***************************************************************************)
Start(F) ==
    /\ file \in F
    /\ cache = <<>>
    /\ reads = 0
    /\ session = "closed"
    /\ page = <<>>
    /\ widgets = <<>>
    /\ df = None
    /\ latest_df = <<>>
    /\ top_pos = <<>>
    /\ top_neg = <<>>
    /\ sector_avg = <<>>
    /\ sector_perf = <<>>
    /\ sel_sector = ""
    /\ comps = <<>>
    /\ sel_comp = ""
    /\ compare_comp = ""
    /\ comp_data = <<>>
    /\ comp2_data = <<>>

Init == Start(Files)

\* the page is opened: the first run of the script, no widget state yet
OpenPage ==
    /\ session = "closed"
    /\ Run(<<>>)

\* the script is run again with nothing changed (the "Rerun" menu entry)
Rerun ==
    /\ session # "closed"
    /\ Run(widgets)

\* the browser reloads the page: a new session, whose widgets start afresh,
\* in the same server process, whose cache lives on
Reload ==
    /\ session # "closed"
    /\ Run(<<>>)

\* a widget change: Streamlit reruns the script with the new widget state
SelectIndustry ==
    \E v \in Range(SectorNames) \cup {"All Sectors"} :
        /\ Changeable("Industry", v)
        /\ Run(Changed("Industry", v))

SelectCompany ==
    \E v \in Range(CompanyNames) :
        /\ Changeable("Company Name", v)
        /\ Run(Changed("Company Name", v))

SelectCompare ==
    \E v \in Range(CompanyNames) \cup {"None"} :
        /\ Changeable("Compare With (Optional)", v)
        /\ Run(Changed("Compare With (Optional)", v))

Next ==
    \/ OpenPage
    \/ Rerun
    \/ Reload
    \/ SelectIndustry
    \/ SelectCompany
    \/ SelectCompare

Spec == Init /\ [][Next]_vars

\* The aggregates of a run are functions of the loaded table alone: they are
\* checked on the larger tables, under the runs that leave the widgets alone.
InitRender == Start(RenderFiles)

NextRender ==
    \/ OpenPage
    \/ Rerun

SpecRender == InitRender /\ [][NextRender]_vars

(***************************************************************************)
(* Properties.  They speak of the state after a run: df, latest_df and the *)
(* other locals of main are the values the run computed.                   *)
(***************************************************************************)
Indices(s) == 1..Len(s)

RECURSIVE ScoreSumAt(_, _)
\* the sum of rows[i].Score over the indices i in I
ScoreSumAt(rows, I) ==
    IF I = {} THEN 0
    ELSE LET i == CHOOSE x \in I : TRUE
         IN  rows[i].Score + ScoreSumAt(rows, I \ {i})

\* the latest-snapshot rows of sector s, by index
LatestIn(s) == {i \in Indices(latest_df) : latest_df[i].Sector = s}

LatestSectors == {latest_df[i].Sector : i \in Indices(latest_df)}

Min(a, b) == IF a <= b THEN a ELSE b

\* the fraction m is the sum of the latest Scores of sector s over their count
IsMeanOf(m, s) ==
    /\ LatestIn(s) # {}
    /\ m.den > 0
    /\ m.num * Cardinality(LatestIn(s)) = ScoreSumAt(latest_df, LatestIn(s)) * m.den

\* C1: the latest snapshot holds exactly one row for each company of the
\* loaded table, that row is a row of the table, and its Date is the maximum
\* Date among all rows of that company.
C1_LatestSnapshot ==
    session = "done" =>
        /\ \A r \in Range(df.rows) :
              Cardinality({i \in Indices(latest_df) :
                              latest_df[i].Company = r.Company}) = 1
        /\ \A i \in Indices(latest_df) :
              /\ latest_df[i] \in Range(df.rows)
              /\ \A r \in Range(df.rows) :
                    r.Company = latest_df[i].Company => r.Date <= latest_df[i].Date

\* C1's case: a company has rows of two dates, the later one first in the file
C1_Witness ==
    /\ session = "done"
    /\ \E i, j \in Indices(file.rows) :
          /\ i < j
          /\ file.rows[i].Company = file.rows[j].Company
          /\ file.rows[i].Year > file.rows[j].Year
    /\ Len(latest_df) < Len(df.rows)

\* C2: every top list is correctly sorted.  Top Positive is min(5, n) distinct
\* rows of the latest snapshot in non-increasing Score order and no row left
\* out has a strictly higher Score than a listed one; Top Negative likewise
\* with non-decreasing Score and strictly lower; Sector Average is
\* min(5, number of sectors) distinct sectors in non-increasing order of their
\* mean Score, no sector left out having a strictly higher mean.
C2_TopLists ==
    session = "done" =>
        /\ Len(top_pos) = Min(TopN, Len(latest_df))
        /\ \A i, j \in Indices(top_pos) : i < j => top_pos[i].Score >= top_pos[j].Score
        /\ Range(top_pos) \subseteq Range(latest_df)
        /\ \A i, j \in Indices(top_pos) : i # j => top_pos[i].Company # top_pos[j].Company
        /\ \A r \in Range(latest_df) \ Range(top_pos) :
              \A t \in Range(top_pos) : r.Score <= t.Score
        /\ Len(top_neg) = Min(TopN, Len(latest_df))
        /\ \A i, j \in Indices(top_neg) : i < j => top_neg[i].Score <= top_neg[j].Score
        /\ Range(top_neg) \subseteq Range(latest_df)
        /\ \A i, j \in Indices(top_neg) : i # j => top_neg[i].Company # top_neg[j].Company
        /\ \A r \in Range(latest_df) \ Range(top_neg) :
              \A t \in Range(top_neg) : r.Score >= t.Score
        /\ Len(sector_avg) = Min(TopN, Cardinality(LatestSectors))
        /\ \A i, j \in Indices(sector_avg) :
              i < j => sector_avg[i].Score.num * sector_avg[j].Score.den
                          >= sector_avg[j].Score.num * sector_avg[i].Score.den
        /\ \A i, j \in Indices(sector_avg) : i # j => sector_avg[i].Sector # sector_avg[j].Sector
        /\ \A i \in Indices(sector_avg) : sector_avg[i].Sector \in LatestSectors
        /\ \A s \in LatestSectors \ {sector_avg[i].Sector : i \in Indices(sector_avg)} :
              \A i \in Indices(sector_avg) :
                 ScoreSumAt(latest_df, LatestIn(s)) * sector_avg[i].Score.den
                    <= sector_avg[i].Score.num * Cardinality(LatestIn(s))

\* C2's case: more companies and more sectors than places, the best company
\* last in the table and the worst first
C2_Witness ==
    /\ session = "done"
    /\ Len(latest_df) > TopN
    /\ Cardinality(LatestSectors) > TopN
    /\ Len(top_pos) = TopN
    /\ Len(sector_avg) = TopN
    /\ \A i \in Indices(latest_df) :
          i < Len(latest_df) => latest_df[i].Score < latest_df[Len(latest_df)].Score
    /\ top_pos[1] = latest_df[Len(latest_df)]
    /\ top_pos[1].Score > top_pos[TopN].Score
    /\ top_neg[1].Score < top_neg[TopN].Score

\* C3: every sector mean shown, in the Sector Average card and in the Sector
\* Performance Map, is the sum of the Scores of the latest-snapshot rows of
\* that sector divided by their number; the map shows every sector.
C3_SectorMeans ==
    session = "done" =>
        /\ \A i \in Indices(sector_avg) :
              IsMeanOf(sector_avg[i].Score, sector_avg[i].Sector)
        /\ \A i \in Indices(sector_perf) :
              IsMeanOf(sector_perf[i].Score, sector_perf[i].Sector)
        /\ {sector_perf[i].Sector : i \in Indices(sector_perf)} = LatestSectors

\* C3's case: a sector with two latest rows of different Scores, and an older
\* row of one of its companies with a Score that would move the mean
C3_Witness ==
    /\ session = "done"
    /\ \E s \in LatestSectors :
          /\ \E i, j \in LatestIn(s) : latest_df[i].Score # latest_df[j].Score
          /\ \E r \in Range(df.rows) \ Range(latest_df) :
                /\ r.Sector = s
                /\ \E i \in LatestIn(s) :
                      r.Company = latest_df[i].Company /\ r.Score # latest_df[i].Score

\* C10: in the Sector Performance Map every sector has one row, and its Count
\* is the number of latest-snapshot rows of that same sector.
C10_SectorCounts ==
    session = "done" =>
        /\ \A i \in Indices(sector_perf) :
              sector_perf[i].Count = Cardinality(LatestIn(sector_perf[i].Sector))
        /\ \A i, j \in Indices(sector_perf) :
              i # j => sector_perf[i].Sector # sector_perf[j].Sector
        /\ Len(sector_perf) = Cardinality(LatestSectors)

\* C10's case: two sectors of different sizes, met in the snapshot in
\* descending order of their names
C10_Witness ==
    /\ session = "done"
    /\ Len(sector_perf) = 2
    /\ sector_perf[1].Count # sector_perf[2].Count
    /\ StrLess(latest_df[Len(latest_df)].Sector, latest_df[1].Sector)

InRange(x) == MinScore <= x /\ x <= MaxScore

\* the score cell of row i of the file: the cell Score is documented to be
ScoreCell(i) ==
    IF "Overall_Score" \in file.columns
    THEN file.rows[i].Overall_Score
    ELSE file.rows[i].Overall_Sentiment

C7_DateMonotone ==
    session = "done" =>
        /\ \A i, j, k \in Indices(df.rows) :
              (i < j /\ j < k /\ df.rows[i].Company = df.rows[k].Company)
                 => df.rows[j].Company = df.rows[i].Company
        /\ \A i, j \in Indices(df.rows) :
              (i < j /\ df.rows[i].Company = df.rows[j].Company)
                 => df.rows[i].Date <= df.rows[j].Date
        /\ \A r \in Range(df.rows) :
              LET line == CompanyRows(df, r.Company)
              IN  \A i, j \in Indices(line) : i < j => line[i].Date <= line[j].Date
        /\ comp_data = CompanyRows(df, sel_comp)
        /\ \A i, j \in Indices(comp_data) : i < j => comp_data[i].Date <= comp_data[j].Date
        /\ \A i, j \in Indices(comp2_data) : i < j => comp2_data[i].Date <= comp2_data[j].Date

\* C7's case: the file holds the later period of the plotted company first,
\* and another company's row between its rows
C7_Witness ==
    /\ session = "done"
    /\ Len(file.rows) >= 3
    /\ file.rows[1].Company = sel_comp
    /\ file.rows[2].Company # sel_comp
    /\ file.rows[3].Company = sel_comp
    /\ file.rows[1].Year > file.rows[3].Year
    /\ Len(comp_data) >= 2
    /\ comp_data[1].Date < comp_data[2].Date

\* the file cannot be loaded: it is missing, or a month is no abbreviation
FileUnusable ==
    \/ ~file.exists
    \/ \E i \in Indices(file.rows) : file.rows[i].Month \notin Range(MonthAbbr)

\* C4: when the file is missing or cannot be parsed (load_data returns None),
\* the run shows an error message and halts: the page holds nothing but error
\* messages, none of the header, cards, charts, selectors or table.
C4_ErrorHalts ==
    (session # "closed" /\ (FileUnusable \/ df.isNone)) =>
        /\ df.isNone
        /\ session = "stopped"
        /\ "not_found_error" \in Range(page)
        /\ Range(page) \cap Range(FullPage) = {}
        /\ Range(page) \subseteq {"load_error", "not_found_error"}
        /\ widgets = <<>>
        /\ top_pos = <<>> /\ top_neg = <<>> /\ sector_avg = <<>> /\ sector_perf = <<>>
        /\ comp_data = <<>> /\ comp2_data = <<>>

\* C4's case: a run on a file that is there and does not parse
C4_Witness ==
    /\ session = "stopped"
    /\ file.exists
    /\ FileUnusable
    /\ "load_error" \in Range(page)

\* C6: over any sequence of runs the file is read at most once.  The first run
\* executes load_data's body (one read, none when the file is missing) and
\* stores what it returned, None included; every run gets the stored result.
C6_ReadOnce ==
    /\ reads <= 1
    /\ session = "closed" => (cache = <<>> /\ reads = 0)
    /\ session # "closed" =>
          /\ cache # <<>>
          /\ df = cache[1]
          /\ reads = (IF file.exists THEN 1 ELSE 0)

\* C6's case: a state only a third run reaches (two widgets were changed)
C6_Witness ==
    /\ session = "done"
    /\ sel_sector # "All Sectors"
    /\ compare_comp # "None"
    /\ reads = 1

\* C8 as stated: a loaded table has a Score in every row, copied from
\* Overall_Score when the file has that column and from Overall_Sentiment
\* otherwise, and a file with neither column is never a loaded table.
C8_ScoreColumn ==
    (session # "closed" /\ ~df.isNone) =>
        /\ file.columns \cap ScoreColumns # {}
        /\ "Score" \in df.columns
        /\ \A r \in Range(df.rows) :
              /\ "Score" \in DOMAIN r
              /\ r.Score = (IF "Overall_Score" \in file.columns
                            THEN r.Overall_Score
                            ELSE r.Overall_Sentiment)

\* the companies of the selected industry
IndustryCompanies ==
    IF sel_sector = "All Sectors"
    THEN {r.Company : r \in Range(df.rows)}
    ELSE {r.Company : r \in {x \in Range(df.rows) : x.Sector = sel_sector}}

\* C9: in every run the comparison company is "None" or a company other than
\* the selected one, and the selected company and any comparison company are
\* companies of the selected industry (all companies under "All Sectors").
C9_Selections ==
    session = "done" =>
        /\ sel_sector \in {"All Sectors"} \cup {r.Sector : r \in Range(df.rows)}
        /\ Range(comps) = IndustryCompanies
        /\ sel_comp \in IndustryCompanies
        /\ compare_comp # sel_comp
        /\ compare_comp # "None" => compare_comp \in IndustryCompanies

\* C9's case: an industry and a comparison company have been chosen, and the
\* industry does not hold every company
C9_Witness ==
    /\ session = "done"
    /\ sel_sector # "All Sectors"
    /\ compare_comp # "None"
    /\ IndustryCompanies # {r.Company : r \in Range(df.rows)}

====
